---------------------------- MODULE Spec2Model ----------------------------
(***************************************************************************)
(* The transform-pipeline engine of src/sonarqube.py: the two process-wide *)
(* registries TRANSFORMS and PIPELINES, the Pipeline class, the builder    *)
(* build_pipeline, and the module's load sequence and entry points.        *)
(*                                                                         *)
(* Numbers.  The engine computes on Python floats.  The model computes on  *)
(* exact rationals [n, d] in lowest terms: subtraction, product, min and   *)
(* max are exact, and math.sqrt, which IEEE rounds to 53 bits, is rounded  *)
(* down to FracBits binary places (it is exact on squares of such          *)
(* numbers, as the IEEE root is).                                          *)
(***************************************************************************)
EXTENDS Integers, Sequences, FiniteSets, TLC

VARIABLES
    mode,        \* how the module is loaded: "import" or "script" (__name__)
    pc,          \* the next module-level statement of the load, or Loaded
    TRANSFORMS,  \* the transform registry: name -> function
    PIPELINES,   \* the pipeline registry: name -> Pipeline object
    result,      \* what the last call returned or raised
    frames       \* thread -> the frame of the invocation it is in

vars == <<mode, pc, TRANSFORMS, PIPELINES, result, frames>>

-----------------------------------------------------------------------------
(* Bounds of the model *)

MaxLen == 2        \* longest value sequence a caller passes
MaxSteps == 3      \* add_step by a caller stops at this many steps
FracBits == 4      \* binary places kept by the square root
MaxN == 4          \* largest count a caller asks number_stream for

-----------------------------------------------------------------------------
(* The numeric domain *)

Abs(i) == IF i < 0 THEN -i ELSE i

RECURSIVE Gcd(_, _)
Gcd(a, b) == IF b = 0 THEN a ELSE Gcd(b, a % b)

\* The rational n/d in lowest terms, d > 0.
Rat(n, d) ==
    LET g == Gcd(Abs(n), Abs(d))
        s == IF d < 0 THEN -1 ELSE 1
    IN  [n |-> (s * n) \div g, d |-> (s * d) \div g]

Num(i) == [n |-> i, d |-> 1]

\* Sums and comparisons go through the least common denominator.
RSub(x, y) ==
    LET g == Gcd(x.d, y.d)
    IN  Rat(x.n * (y.d \div g) - y.n * (x.d \div g), (x.d \div g) * y.d)
RAdd(x, y) ==
    LET g == Gcd(x.d, y.d)
    IN  Rat(x.n * (y.d \div g) + y.n * (x.d \div g), (x.d \div g) * y.d)
RMul(x, y) == Rat(x.n * y.n, x.d * y.d)
RLe(x, y) ==
    LET g == Gcd(x.d, y.d)
    IN  x.n * (y.d \div g) <= y.n * (x.d \div g)
RAbs(x) == [n |-> Abs(x.n), d |-> x.d]
RMin(x, y) == IF RLe(x, y) THEN x ELSE y
RMax(x, y) == IF RLe(x, y) THEN y ELSE x

\* The integer square root, by Newton's iteration from above.
RECURSIVE ISqrtFrom(_, _)
ISqrtFrom(n, r) ==
    LET nxt == (r + n \div r) \div 2
    IN  IF nxt >= r THEN r ELSE ISqrtFrom(n, nxt)

ISqrt(n) == IF n = 0 THEN 0 ELSE ISqrtFrom(n, n)

\* math.sqrt on a non-negative number, rounded down to FracBits places.
RSqrt(x) ==
    LET q == 2 ^ FracBits
    IN  Rat(ISqrt((x.n * q * q) \div x.d), q)

-----------------------------------------------------------------------------
(* The functions the module defines, by name, and what each computes *)

center(x) == RSub(x, Rat(1, 2))
square(x) == RMul(x, x)
sqrt_plus_one(x) == RAdd(RSqrt(RAbs(x)), Num(1))
clip_0_2(x) == RMax(Num(0), RMin(Num(2), x))
normalize_0_1(x) == x

\* The decorated definitions in the order the module executes them.
Builtins == <<"center", "square", "sqrt_plus_one", "clip_0_2", "normalize_0_1">>

Fns == {Builtins[i] : i \in DOMAIN Builtins}

\* step(v): the call of a function object.
Call(fn, x) ==
    CASE fn = "center" -> center(x)
      [] fn = "square" -> square(x)
      [] fn = "sqrt_plus_one" -> sqrt_plus_one(x)
      [] fn = "clip_0_2" -> clip_0_2(x)
      [] fn = "normalize_0_1" -> normalize_0_1(x)


-----------------------------------------------------------------------------
(* Pipeline: lines 22-40.  A Pipeline object is [name, steps]; steps holds *)
(* function objects, not registry names.                                   *)

NewPipeline(name) == [name |-> name, steps |-> <<>>]

\* Pipeline.add_step: self.steps.append(fn).
AddStepTo(pipe, fn) == [pipe EXCEPT !.steps = Append(@, fn)]

\* The inner loop taking the steps last to first.
RECURSIVE ApplyStepsBackwards(_, _, _)
ApplyStepsBackwards(steps, k, v) ==
    IF k > Len(steps) THEN v
    ELSE ApplyStepsBackwards(steps, k + 1, Call(steps[Len(steps) + 1 - k], v))

\* The inner loop of run: v = step(v) for the steps from the k-th on.
RECURSIVE ApplySteps(_, _, _)
ApplySteps(steps, k, v) ==
    IF k > Len(steps) THEN v
    ELSE ApplySteps(steps, k + 1, Call(steps[k], v))

\* The outer loop with out.insert(0, v) in place of append.
RECURSIVE RunFromPrepending(_, _, _, _)
RunFromPrepending(steps, values, i, out) ==
    IF i > Len(values) THEN out
    ELSE RunFromPrepending(steps, values, i + 1,
                           <<ApplySteps(steps, 1, values[i])>> \o out)

\* The outer loop of run: out.append(v) for the values from the i-th on.
RECURSIVE RunFrom(_, _, _, _)
RunFrom(steps, values, i, out) ==
    IF i > Len(values) THEN out
    ELSE RunFrom(steps, values, i + 1, Append(out, ApplySteps(steps, 1, values[i])))

\* Pipeline.run(values) on a pipeline with these steps.
PipelineRun(steps, values) == RunFrom(steps, values, 1, <<>>)

-----------------------------------------------------------------------------
(* The registries and the builder: lines 8-18 and 44-55 *)

\* TRANSFORMS = {name: fn}: the registry started over at each registration.
RegisterAfresh(T, name, fn) == (name :> fn)

\* TRANSFORMS.setdefault(name, fn): the first registration of a name stays.
RegisterIfAbsent(T, name, fn) == T @@ (name :> fn)

\* TRANSFORMS[name] = fn
Register(T, name, fn) == (name :> fn) @@ T

\* Each absent name once, at its first place: what set(spec) - set(T) in
\* place of the comprehension would report.
MissingOnce(T, spec) ==
    LET First(i) == \A k \in 1..(i - 1) : spec[k] # spec[i]
        idx == {i \in DOMAIN spec : spec[i] \notin DOMAIN T /\ First(i)}
        Nth(j) == CHOOSE i \in idx : Cardinality({k \in idx : k <= i}) = j
    IN  [j \in 1..Cardinality(idx) |-> spec[Nth(j)]]

\* missing = [s for s in spec if s not in TRANSFORMS]
Missing(T, spec) ==
    LET Absent(s) == s \notin DOMAIN T
    IN  SelectSeq(spec, Absent)

\* The loop with steps.insert(0, fn) in place of append.
RECURSIVE ResolveFromPrepending(_, _, _, _)
ResolveFromPrepending(T, spec, i, pipe) ==
    IF i > Len(spec) \/ spec[i] \notin DOMAIN T THEN pipe
    ELSE ResolveFromPrepending(T, spec, i + 1,
                               [pipe EXCEPT !.steps = <<T[spec[i]]>> \o @])

\* for key in spec: pipe.add_step(TRANSFORMS[key]), up to the first key the
\* lookup fails on.
RECURSIVE ResolveFrom(_, _, _, _)
ResolveFrom(T, spec, i, pipe) ==
    IF i > Len(spec) \/ spec[i] \notin DOMAIN T THEN pipe
    ELSE ResolveFrom(T, spec, i + 1, AddStepTo(pipe, T[spec[i]]))

\* What a call raised: nothing, or an exception type with its message.
NoExc == [type |-> "none", msg |-> ""]
Raised(type, msg) == [type |-> type, msg |-> msg]

\* build_pipeline with the two checks in the other order.
BuildOutcomeValidatingFirst(T, P, name, spec) ==
    IF Missing(T, spec) # <<>>
    THEN [exc |-> Raised("KeyError", "Unknown transforms"),
          missing |-> Missing(T, spec), pipe |-> <<>>, P |-> P]
    ELSE IF name \in DOMAIN P
    THEN [exc |-> Raised("ValueError", "already exists"), missing |-> <<>>,
          pipe |-> <<>>, P |-> P]
    ELSE LET pipe == ResolveFrom(T, spec, 1, NewPipeline(name))
         IN  [exc |-> NoExc, missing |-> <<>>, pipe |-> <<pipe>>,
              P |-> (name :> pipe) @@ P]

\* build_pipeline registering the pipeline before it resolves the names,
\* and failing at the first name the lookup does not find.
BuildOutcomeRegisteringFirst(T, P, name, spec) ==
    IF name \in DOMAIN P
    THEN [exc |-> Raised("ValueError", "already exists"), missing |-> <<>>,
          pipe |-> <<>>, P |-> P]
    ELSE LET pipe == ResolveFrom(T, spec, 1, NewPipeline(name))
         IN  IF Len(pipe.steps) < Len(spec)
             THEN [exc |-> Raised("KeyError", "Unknown transforms"),
                   missing |-> Missing(T, spec), pipe |-> <<>>,
                   P |-> (name :> pipe) @@ P]
             ELSE [exc |-> NoExc, missing |-> <<>>, pipe |-> <<pipe>>,
                   P |-> (name :> pipe) @@ P]

\* build_pipeline without the check of lines 46-47: a build under a bound
\* name binds the name anew.
BuildOutcomeOverwriting(T, P, name, spec) ==
    IF Missing(T, spec) # <<>>
    THEN [exc |-> Raised("KeyError", "Unknown transforms"),
          missing |-> Missing(T, spec), pipe |-> <<>>, P |-> P]
    ELSE LET pipe == ResolveFrom(T, spec, 1, NewPipeline(name))
         IN  [exc |-> NoExc, missing |-> <<>>, pipe |-> <<pipe>>,
              P |-> (name :> pipe) @@ P]

\* build_pipeline without the check for missing names: the lookup in the
\* loop is the first to meet a name not registered.
BuildOutcomeUnvalidated(T, P, name, spec) ==
    IF name \in DOMAIN P
    THEN [exc |-> Raised("ValueError", "already exists"), missing |-> <<>>,
          pipe |-> <<>>, P |-> P]
    ELSE LET pipe == ResolveFrom(T, spec, 1, NewPipeline(name))
         IN  IF Len(pipe.steps) < Len(spec)
             THEN [exc |-> Raised("KeyError", spec[Len(pipe.steps) + 1]),
                   missing |-> <<>>, pipe |-> <<>>, P |-> P]
             ELSE [exc |-> NoExc, missing |-> <<>>, pipe |-> <<pipe>>,
                   P |-> (name :> pipe) @@ P]

\* build_pipeline refusing a spec with no names.
BuildOutcomeRejectingEmpty(T, P, name, spec) ==
    IF name \in DOMAIN P
    THEN [exc |-> Raised("ValueError", "already exists"), missing |-> <<>>,
          pipe |-> <<>>, P |-> P]
    ELSE IF spec = <<>>
    THEN [exc |-> Raised("ValueError", "empty spec"), missing |-> <<>>,
          pipe |-> <<>>, P |-> P]
    ELSE IF Missing(T, spec) # <<>>
    THEN [exc |-> Raised("KeyError", "Unknown transforms"),
          missing |-> Missing(T, spec), pipe |-> <<>>, P |-> P]
    ELSE LET pipe == ResolveFrom(T, spec, 1, NewPipeline(name))
         IN  [exc |-> NoExc, missing |-> <<>>, pipe |-> <<pipe>>,
              P |-> (name :> pipe) @@ P]

\* build_pipeline(name, spec) in registries T, P: what it raises, the list
\* the message carries, the pipeline it returns (none: <<>>) and the
\* pipeline registry it leaves.
BuildOutcome(T, P, name, spec) ==
    IF name \in DOMAIN P
    THEN [exc |-> Raised("ValueError", "already exists"), missing |-> <<>>,
          pipe |-> <<>>, P |-> P]
    ELSE IF Missing(T, spec) # <<>>
    THEN [exc |-> Raised("KeyError", "Unknown transforms"),
          missing |-> Missing(T, spec), pipe |-> <<>>, P |-> P]
    ELSE LET pipe == ResolveFrom(T, spec, 1, NewPipeline(name))
         IN  IF Len(pipe.steps) < Len(spec)
             THEN [exc |-> Raised("KeyError", spec[Len(pipe.steps) + 1]),
                   missing |-> <<>>, pipe |-> <<>>, P |-> P]
             ELSE [exc |-> NoExc, missing |-> <<>>, pipe |-> <<pipe>>,
                   P |-> (name :> pipe) @@ P]

-----------------------------------------------------------------------------
(* The input generator and the reporters: lines 83-101 and 150-191 *)

\* number_stream reducing the index and not the product.
number_streamModFirst(n) == [k \in 1..n |-> Rat(37 * ((k - 1) % 101), 100)]

\* list(number_stream(n)): (37 * i % 101) / 100.0 for i in range(n).
number_stream(n) == [k \in 1..n |-> Rat((37 * (k - 1)) % 101, 100)]

\* min(vals) and max(vals) of a non-empty list.
RECURSIVE MinFrom(_, _, _)
MinFrom(vals, i, m) ==
    IF i > Len(vals) THEN m ELSE MinFrom(vals, i + 1, RMin(m, vals[i]))

RECURSIVE MaxFrom(_, _, _)
MaxFrom(vals, i, m) ==
    IF i > Len(vals) THEN m ELSE MaxFrom(vals, i + 1, RMax(m, vals[i]))

MinOf(vals) == MinFrom(vals, 2, vals[1])
MaxOf(vals) == MaxFrom(vals, 2, vals[1])

\* sum(vals), from 0.
RECURSIVE SumFrom(_, _, _)
SumFrom(vals, i, total) ==
    IF i > Len(vals) THEN total ELSE SumFrom(vals, i + 1, RAdd(total, vals[i]))

\* summarize with numeric zeros for the empty list, as run_with_context has.
summarizeZeroed(vals) ==
    IF vals = <<>>
    THEN [count |-> 0, min |-> <<Num(0)>>, max |-> <<Num(0)>>,
          mean |-> <<Num(0)>>]
    ELSE LET total == SumFrom(vals, 1, Num(0))
         IN  [count |-> Len(vals),
              min |-> <<MinOf(vals)>>,
              max |-> <<MaxOf(vals)>>,
              mean |-> <<RMul(total, Rat(1, Len(vals)))>>]

\* summarize with total // len(vals) for the mean.
summarizeFloorMean(vals) ==
    IF vals = <<>>
    THEN [count |-> 0, min |-> <<>>, max |-> <<>>, mean |-> <<>>]
    ELSE LET total == SumFrom(vals, 1, Num(0))
         IN  [count |-> Len(vals),
              min |-> <<MinOf(vals)>>,
              max |-> <<MaxOf(vals)>>,
              mean |-> <<Num(total.n \div (total.d * Len(vals)))>>]

\* summarize(values): None is <<>>, a number x is <<x>>.
summarize(vals) ==
    IF vals = <<>>
    THEN [count |-> 0, min |-> <<>>, max |-> <<>>, mean |-> <<>>]
    ELSE LET total == SumFrom(vals, 1, Num(0))
         IN  [count |-> Len(vals),
              min |-> <<MinOf(vals)>>,
              max |-> <<MaxOf(vals)>>,
              mean |-> <<RMul(total, Rat(1, Len(vals)))>>]

PipelineRunContext(name, count, minB, maxB, minA, maxA) ==
    [name |-> name, input_count |-> count, min_before |-> minB,
     max_before |-> maxB, min_after |-> minA, max_after |-> maxA]

\* run_with_context with the empty-input return before the lookup.
RunWithContextOutcomeEmptyFirst(P, pipe_name, vals) ==
    IF vals = <<>>
    THEN [exc |-> NoExc,
          ctx |-> <<PipelineRunContext(pipe_name, 0, Num(0), Num(0), Num(0), Num(0))>>]
    ELSE IF pipe_name \notin DOMAIN P
    THEN [exc |-> Raised("KeyError", "No pipeline named"), ctx |-> <<>>]
    ELSE LET pipe == P[pipe_name]
             out == PipelineRun(pipe.steps, vals)
         IN  [exc |-> NoExc,
              ctx |-> <<PipelineRunContext(pipe_name, Len(vals), MinOf(vals),
                                           MaxOf(vals), MinOf(out), MaxOf(out))>>]

\* run_with_context taking the range after from the input again.
RunWithContextOutcomeOfInput(P, pipe_name, vals) ==
    IF pipe_name \notin DOMAIN P
    THEN [exc |-> Raised("KeyError", "No pipeline named"), ctx |-> <<>>]
    ELSE IF vals = <<>>
    THEN [exc |-> NoExc,
          ctx |-> <<PipelineRunContext(pipe_name, 0, Num(0), Num(0), Num(0), Num(0))>>]
    ELSE [exc |-> NoExc,
          ctx |-> <<PipelineRunContext(pipe_name, Len(vals), MinOf(vals),
                                       MaxOf(vals), MinOf(vals), MaxOf(vals))>>]

\* run_with_context with the two ends of the range after exchanged.
RunWithContextOutcomeSwapped(P, pipe_name, vals) ==
    IF pipe_name \notin DOMAIN P
    THEN [exc |-> Raised("KeyError", "No pipeline named"), ctx |-> <<>>]
    ELSE IF vals = <<>>
    THEN [exc |-> NoExc,
          ctx |-> <<PipelineRunContext(pipe_name, 0, Num(0), Num(0), Num(0), Num(0))>>]
    ELSE LET pipe == P[pipe_name]
             out == PipelineRun(pipe.steps, vals)
         IN  [exc |-> NoExc,
              ctx |-> <<PipelineRunContext(pipe_name, Len(vals), MinOf(vals),
                                           MaxOf(vals), MaxOf(out), MinOf(out))>>]

\* run_with_context(pipe_name, values) in pipeline registry P: what it
\* raises and the context it returns (none: <<>>).
RunWithContextOutcome(P, pipe_name, vals) ==
    IF pipe_name \notin DOMAIN P
    THEN [exc |-> Raised("KeyError", "No pipeline named"), ctx |-> <<>>]
    ELSE IF vals = <<>>
    THEN [exc |-> NoExc,
          ctx |-> <<PipelineRunContext(pipe_name, 0, Num(0), Num(0), Num(0), Num(0))>>]
    ELSE LET pipe == P[pipe_name]
             out == PipelineRun(pipe.steps, vals)
         IN  [exc |-> NoExc,
              ctx |-> <<PipelineRunContext(pipe_name, Len(vals), MinOf(vals),
                                           MaxOf(vals), MinOf(out), MaxOf(out))>>]

-----------------------------------------------------------------------------
(* The entry points: lines 112-132 and 194-208 *)

SmoothSpec == <<"center", "square", "clip_0_2">>
BoostSpec == <<"sqrt_plus_one", "square">>

\* main(): the two builds in turn; an exception of either ends the call.
\* What follows them (the two runs of number_stream(20) and the printed
\* summaries) reads the registries and changes nothing.
MainOutcome(T, P) ==
    LET b1 == BuildOutcome(T, P, "smooth", SmoothSpec)
        b2 == BuildOutcome(T, b1.P, "boost", BoostSpec)
    IN  IF b1.exc # NoExc THEN [exc |-> b1.exc, name |-> "smooth", P |-> b1.P]
        ELSE IF b2.exc # NoExc THEN [exc |-> b2.exc, name |-> "boost", P |-> b2.P]
        ELSE [exc |-> NoExc, name |-> "", P |-> b2.P]

\* x + k * 1e-9, kept as its two terms: 10^9 times a span of several units
\* is more than a TLC integer holds. With x a rational of denominator below
\* 10^9 and k at most 1, the sum is 0 only if both terms are.
PlusNano(x, k) == [whole |-> x, nano |-> k]
NanoIsZero(y) == y.whole.n = 0 /\ y.nano = 0

\* The derived metric with the bare span as the divisor.
RelativeSpanChangeNoEpsilon(ctx) ==
    IF ctx.input_count > 0
    THEN <<[num |-> RSub(ctx.max_after, ctx.min_after),
            den |-> PlusNano(RSub(ctx.max_before, ctx.min_before), 0)]>>
    ELSE <<>>

\* Lines 204-206: if ctx.input_count > 0, the terms of the division
\* (max_after - min_after) / (max_before - min_before + 1e-9); no metric
\* (<<>>) otherwise.
RelativeSpanChange(ctx) ==
    IF ctx.input_count > 0
    THEN <<[num |-> RSub(ctx.max_after, ctx.min_after),
            den |-> PlusNano(RSub(ctx.max_before, ctx.min_before), 1)]>>
    ELSE <<>>

\* demo_additional_features building "normalized_boost" without looking
\* whether it is there.
DemoOutcomeAlwaysBuilding(T, P) ==
    LET b == BuildOutcome(T, P, "normalized_boost", BoostSpec)
        r == RunWithContextOutcome(b.P, "normalized_boost", number_stream(10))
        m == RelativeSpanChange(r.ctx[1])
    IN  IF b.exc # NoExc
        THEN [exc |-> b.exc, ctx |-> <<>>, metric |-> <<>>, P |-> b.P]
        ELSE [exc |-> NoExc, ctx |-> r.ctx, metric |-> m, P |-> b.P]

\* demo_additional_features(): build "normalized_boost" if absent, then
\* run_with_context on number_stream(10), then the derived metric.
DemoOutcome(T, P) ==
    LET b == IF "normalized_boost" \notin DOMAIN P
             THEN BuildOutcome(T, P, "normalized_boost", BoostSpec)
             ELSE [exc |-> NoExc, missing |-> <<>>, pipe |-> <<>>, P |-> P]
        r == RunWithContextOutcome(b.P, "normalized_boost", number_stream(10))
        m == RelativeSpanChange(r.ctx[1])
    IN  IF b.exc # NoExc
        THEN [exc |-> b.exc, ctx |-> <<>>, metric |-> <<>>, P |-> b.P]
        ELSE IF r.exc # NoExc
        THEN [exc |-> r.exc, ctx |-> <<>>, metric |-> <<>>, P |-> b.P]
        ELSE IF m # <<>> /\ NanoIsZero(m[1].den)
        THEN [exc |-> Raised("ZeroDivisionError", "float division by zero"),
              ctx |-> r.ctx, metric |-> <<>>, P |-> b.P]
        ELSE [exc |-> NoExc, ctx |-> r.ctx, metric |-> m, P |-> b.P]

-----------------------------------------------------------------------------
(* What callers pass *)

\* The names a caller registers a transform under, and the function it
\* registers; "other", which Specs uses, is a name nobody registers.
RegNames == {"center", "custom"}
RegFns == {"square"}

PNames == {"smooth", "boost", "normalized_boost"}

Specs ==
    { <<>>, SmoothSpec, BoostSpec, <<"custom">>,
      <<"other", "center", "custom">>, <<"custom", "other", "custom">> }

\* The pipelines a caller keeps the returned reference of, and what it
\* appends through it.
Held == {"smooth"}
AddFns == {"center"}

Vals == {Num(0), Num(1), Num(4)}

SeqsUpTo(S, n) == UNION {[1..k -> S] : k \in 0..n}

Inputs == SeqsUpTo(Vals, MaxLen)

\* What a caller has summarized.
SummarizeInputs == Inputs \cup {<<Num(1), Num(2), Num(3)>>}

-----------------------------------------------------------------------------
(* The state machine *)

\* The module-level statements that act on the registries, in file order:
\* the five decorated definitions, and the two blocks guarded by
\* __name__ == "__main__" (lines 136-137 and 212-215).
LoadSeq ==
    <<"center", "square", "sqrt_plus_one", "clip_0_2", "main",
      "normalize_0_1", "demo">>

Loaded == Len(LoadSeq) + 1

NoResult ==
    [op |-> "none", name |-> "", fn |-> "", spec |-> <<>>, values |-> <<>>,
     n |-> 0, metric |-> <<>>, exc |-> NoExc, missing |-> <<>>, pipe |-> <<>>, out |-> <<>>,
     ctx |-> <<>>, stats |-> <<>>]

Init ==
    /\ mode \in {"import", "script"}
    /\ pc = 1
    /\ TRANSFORMS = << >>
    /\ PIPELINES = << >>
    /\ result = NoResult
    /\ frames = << >>

\* A registration that reaches into the pipelines built from the name: as
\* if a pipeline held the registry entry and not the function.
register_transformRebinding(name, fn) ==
    LET Rebound(steps) ==
            [i \in DOMAIN steps |->
                IF name \in DOMAIN TRANSFORMS /\ steps[i] = TRANSFORMS[name]
                THEN fn ELSE steps[i]]
    IN  /\ TRANSFORMS' = Register(TRANSFORMS, name, fn)
        /\ PIPELINES' = [n \in DOMAIN PIPELINES |->
                            [PIPELINES[n] EXCEPT !.steps = Rebound(@)]]
        /\ result' = [NoResult EXCEPT !.op = "register_transform",
                                      !.name = name, !.fn = fn]

\* register_transform(name)(fn)
register_transform(name, fn) ==
    /\ TRANSFORMS' = Register(TRANSFORMS, name, fn)
    /\ result' = [NoResult EXCEPT !.op = "register_transform", !.name = name,
                                  !.fn = fn]
    /\ UNCHANGED PIPELINES

build_pipeline(name, spec) ==
    LET b == BuildOutcome(TRANSFORMS, PIPELINES, name, spec)
    IN  /\ PIPELINES' = b.P
        /\ result' = [NoResult EXCEPT !.op = "build_pipeline", !.name = name,
                                      !.spec = spec, !.exc = b.exc,
                                      !.missing = b.missing, !.pipe = b.pipe]
        /\ UNCHANGED TRANSFORMS

\* add_step(fn) on the pipeline build_pipeline returned for this name: the
\* object the caller holds is the one PIPELINES holds.
add_step(name, fn) ==
    /\ name \in DOMAIN PIPELINES
    /\ Len(PIPELINES[name].steps) < MaxSteps
    /\ PIPELINES' = [PIPELINES EXCEPT ![name] = AddStepTo(@, fn)]
    /\ result' = [NoResult EXCEPT !.op = "add_step", !.name = name, !.fn = fn,
                                  !.pipe = <<PIPELINES'[name]>>]
    /\ UNCHANGED TRANSFORMS

\* A run that takes each step off the pipeline as it applies it
\* (while self.steps: step = self.steps.pop(0)).
runDraining(name, vals) ==
    /\ name \in DOMAIN PIPELINES
    /\ result' = [NoResult EXCEPT !.op = "run", !.name = name, !.values = vals,
                                  !.out = PipelineRun(PIPELINES[name].steps, vals)]
    /\ PIPELINES' = [PIPELINES EXCEPT ![name].steps = <<>>]
    /\ UNCHANGED TRANSFORMS

\* A run that refuses an empty input.
runRejectingEmpty(name, vals) ==
    /\ name \in DOMAIN PIPELINES
    /\ result' = [NoResult EXCEPT
                      !.op = "run", !.name = name, !.values = vals,
                      !.exc = IF vals = <<>> THEN Raised("ValueError", "empty")
                              ELSE NoExc,
                      !.out = PipelineRun(PIPELINES[name].steps, vals)]
    /\ UNCHANGED <<TRANSFORMS, PIPELINES>>

\* run(values) on the pipeline build_pipeline returned for this name
run(name, vals) ==
    /\ name \in DOMAIN PIPELINES
    /\ result' = [NoResult EXCEPT !.op = "run", !.name = name, !.values = vals,
                                  !.out = PipelineRun(PIPELINES[name].steps, vals)]
    /\ UNCHANGED <<TRANSFORMS, PIPELINES>>

run_with_context(name, vals) ==
    LET r == RunWithContextOutcome(PIPELINES, name, vals)
    IN  /\ result' = [NoResult EXCEPT !.op = "run_with_context", !.name = name,
                                      !.values = vals, !.exc = r.exc,
                                      !.ctx = r.ctx]
        /\ UNCHANGED <<TRANSFORMS, PIPELINES>>

Summarize(vals) ==
    /\ result' = [NoResult EXCEPT !.op = "summarize", !.values = vals,
                                  !.stats = <<summarize(vals)>>]
    /\ UNCHANGED <<TRANSFORMS, PIPELINES>>

\* A caller draining number_stream(n).
NumberStream(n) ==
    /\ result' = [NoResult EXCEPT !.op = "number_stream", !.n = n,
                                  !.out = number_stream(n)]
    /\ UNCHANGED <<TRANSFORMS, PIPELINES>>

main ==
    LET m == MainOutcome(TRANSFORMS, PIPELINES)
    IN  /\ PIPELINES' = m.P
        /\ result' = [NoResult EXCEPT !.op = "main", !.name = m.name,
                                      !.exc = m.exc]
        /\ UNCHANGED TRANSFORMS

demo_additional_features ==
    LET d == DemoOutcome(TRANSFORMS, PIPELINES)
    IN  /\ PIPELINES' = d.P
        /\ result' = [NoResult EXCEPT !.op = "demo_additional_features",
                                      !.exc = d.exc, !.ctx = d.ctx,
                                      !.metric = d.metric]
        /\ UNCHANGED TRANSFORMS

\* The caller is between two calls: it holds no result.
Idle == result = NoResult

\* The caller is done with what the last call returned or raised and goes
\* on to its next statement.
Proceed ==
    /\ ~Idle
    /\ result' = NoResult
    /\ UNCHANGED <<mode, pc, TRANSFORMS, PIPELINES, frames>>

\* Loading the module: one module-level statement at a time.
LoadTransform ==
    /\ Idle
    /\ pc < Loaded
    /\ LoadSeq[pc] \in Fns
    /\ register_transform(LoadSeq[pc], LoadSeq[pc])
    /\ pc' = pc + 1
    /\ UNCHANGED <<mode, frames>>

LoadMain ==
    /\ Idle
    /\ pc < Loaded
    /\ LoadSeq[pc] = "main"
    /\ IF mode = "script" THEN main
       ELSE UNCHANGED <<TRANSFORMS, PIPELINES, result>>
    /\ pc' = pc + 1
    /\ UNCHANGED <<mode, frames>>

LoadDemo ==
    /\ Idle
    /\ pc < Loaded
    /\ LoadSeq[pc] = "demo"
    /\ IF mode = "script" THEN demo_additional_features
       ELSE UNCHANGED <<TRANSFORMS, PIPELINES, result>>
    /\ pc' = pc + 1
    /\ UNCHANGED <<mode, frames>>

\* A program that imported the module calls into it.
Importer == Idle /\ pc = Loaded /\ mode = "import"

CallRegister ==
    /\ Importer
    /\ \E name \in RegNames, fn \in RegFns : register_transform(name, fn)
    /\ UNCHANGED <<mode, pc, frames>>

CallBuild ==
    /\ Importer
    /\ \E name \in PNames, spec \in Specs : build_pipeline(name, spec)
    /\ UNCHANGED <<mode, pc, frames>>

CallAddStep ==
    /\ Importer
    /\ \E name \in Held, fn \in AddFns : add_step(name, fn)
    /\ UNCHANGED <<mode, pc, frames>>

CallRun ==
    /\ Importer
    /\ \E name \in PNames, vals \in Inputs : run(name, vals)
    /\ UNCHANGED <<mode, pc, frames>>

CallRunWithContext ==
    /\ Importer
    /\ \E name \in PNames, vals \in Inputs : run_with_context(name, vals)
    /\ UNCHANGED <<mode, pc, frames>>

CallSummarize ==
    /\ Importer
    /\ \E vals \in SummarizeInputs : Summarize(vals)
    /\ UNCHANGED <<mode, pc, frames>>

CallNumberStream ==
    /\ Importer
    /\ \E n \in 0..MaxN : NumberStream(n)
    /\ UNCHANGED <<mode, pc, frames>>

CallMain ==
    /\ Importer
    /\ main
    /\ UNCHANGED <<mode, pc, frames>>

CallDemo ==
    /\ Importer
    /\ demo_additional_features
    /\ UNCHANGED <<mode, pc, frames>>

Next ==
    \/ LoadTransform
    \/ LoadMain
    \/ LoadDemo
    \/ CallRegister
    \/ CallBuild
    \/ CallAddStep
    \/ CallRun
    \/ CallRunWithContext
    \/ CallSummarize
    \/ CallNumberStream
    \/ CallMain
    \/ CallDemo
    \/ Proceed

Spec == Init /\ [][Next]_vars

-----------------------------------------------------------------------------
(* Interleaved invocations of Pipeline.run and summarize: lines 34-40 and
   91-101, one frame of locals for each invocation, the threads taking
   turns between any two steps *)

Threads == {1, 2}

\* What the interleaved invocations are given.
ConcVals == {Num(0), Num(4)}
ConcInputs == SeqsUpTo(ConcVals, MaxLen)

\* The frame at the call of run(values) on the pipeline bound to name: the
\* position in the two for loops, v (unbound: <<>>) and out.
RunFrame(name, vals) ==
    [fn |-> "run", name |-> name, values |-> vals, pc |-> "for_v", i |-> 1,
     k |-> 1, v |-> <<>>, out |-> <<>>, total |-> Num(0), stats |-> <<>>,
     interleaved |-> FALSE]

\* The frame at the call of summarize(values).
SummarizeFrame(vals) ==
    [fn |-> "summarize", name |-> "", values |-> vals, pc |-> "list", i |-> 1,
     k |-> 1, v |-> <<>>, out |-> <<>>, total |-> Num(0), stats |-> <<>>,
     interleaved |-> FALSE]

\* The invocation has taken a step and has not returned.
InFlight(f) ==
    /\ f.pc # "done"
    /\ IF f.fn = "run" THEN f.i > 1 ELSE f.pc # "list"

\* Thread t takes a step while the invocation of another thread is under
\* way (history, for telling interleaved runs from runs one after another).
Interleaves(t) ==
    frames[t].interleaved \/ \E u \in Threads \ {t} : InFlight(frames[u])

\* The module imported, main() called: "smooth" and "boost" are built, and
\* each thread is at the call of run on one of them or of summarize.
InitConc ==
    /\ mode = "import"
    /\ pc = Loaded
    /\ TRANSFORMS = [f \in Fns |-> f]
    /\ PIPELINES = MainOutcome([f \in Fns |-> f], << >>).P
    /\ result = NoResult
    /\ frames \in [Threads ->
          {RunFrame(name, vals) : name \in {"smooth", "boost"}, vals \in ConcInputs}
             \cup {SummarizeFrame(vals) : vals \in ConcInputs}]

\* for v in values: the next value, line 36.
RunNextValue(t) ==
    LET f == frames[t]
    IN  /\ f.fn = "run" /\ f.pc = "for_v"
        /\ f.i <= Len(f.values)
        /\ frames' = [frames EXCEPT ![t] =
              [f EXCEPT !.v = <<f.values[f.i]>>, !.i = f.i + 1, !.k = 1,
                        !.pc = "for_step", !.interleaved = Interleaves(t)]]
        /\ UNCHANGED <<mode, pc, TRANSFORMS, PIPELINES, result>>

\* v = step(v) for the next step of self.steps, lines 37-38.
RunStep(t) ==
    LET f == frames[t]
        steps == PIPELINES[f.name].steps
    IN  /\ f.fn = "run" /\ f.pc = "for_step"
        /\ f.k <= Len(steps)
        /\ frames' = [frames EXCEPT ![t] =
              [f EXCEPT !.v = <<Call(steps[f.k], f.v[1])>>, !.k = f.k + 1,
                        !.interleaved = Interleaves(t)]]
        /\ UNCHANGED <<mode, pc, TRANSFORMS, PIPELINES, result>>

\* out one list of the class, not of the call: every invocation of run
\* appends to it.
RunAppendShared(t) ==
    LET f == frames[t]
        steps == PIPELINES[f.name].steps
    IN  /\ f.fn = "run" /\ f.pc = "for_step"
        /\ f.k > Len(steps)
        /\ frames' = [u \in Threads |->
              IF u = t
              THEN [f EXCEPT !.out = Append(f.out, f.v[1]), !.pc = "for_v",
                             !.interleaved = Interleaves(t)]
              ELSE IF frames[u].fn = "run"
              THEN [frames[u] EXCEPT !.out = Append(frames[u].out, f.v[1])]
              ELSE frames[u]]
        /\ UNCHANGED <<mode, pc, TRANSFORMS, PIPELINES, result>>

\* out.append(v) once the steps are exhausted, line 39.
RunAppend(t) ==
    LET f == frames[t]
        steps == PIPELINES[f.name].steps
    IN  /\ f.fn = "run" /\ f.pc = "for_step"
        /\ f.k > Len(steps)
        /\ frames' = [frames EXCEPT ![t] =
              [f EXCEPT !.out = Append(f.out, f.v[1]), !.pc = "for_v",
                        !.interleaved = Interleaves(t)]]
        /\ UNCHANGED <<mode, pc, TRANSFORMS, PIPELINES, result>>

\* return out once the values are exhausted, line 40.
RunReturn(t) ==
    LET f == frames[t]
    IN  /\ f.fn = "run" /\ f.pc = "for_v"
        /\ f.i > Len(f.values)
        /\ frames' = [frames EXCEPT ![t] =
              [f EXCEPT !.pc = "done", !.interleaved = Interleaves(t)]]
        /\ UNCHANGED <<mode, pc, TRANSFORMS, PIPELINES, result>>

\* vals = list(values) and the return for the empty list, lines 92-94.
SummarizeList(t) ==
    LET f == frames[t]
    IN  /\ f.fn = "summarize" /\ f.pc = "list"
        /\ frames' = [frames EXCEPT ![t] =
              IF f.values = <<>>
              THEN [f EXCEPT !.stats = <<[count |-> 0, min |-> <<>>,
                                          max |-> <<>>, mean |-> <<>>]>>,
                             !.pc = "done", !.interleaved = Interleaves(t)]
              ELSE [f EXCEPT !.pc = "sum", !.interleaved = Interleaves(t)]]
        /\ UNCHANGED <<mode, pc, TRANSFORMS, PIPELINES, result>>

\* total = sum(vals), line 95: one element added.
SummarizeAdd(t) ==
    LET f == frames[t]
    IN  /\ f.fn = "summarize" /\ f.pc = "sum"
        /\ f.i <= Len(f.values)
        /\ frames' = [frames EXCEPT ![t] =
              [f EXCEPT !.total = RAdd(f.total, f.values[f.i]), !.i = f.i + 1,
                        !.interleaved = Interleaves(t)]]
        /\ UNCHANGED <<mode, pc, TRANSFORMS, PIPELINES, result>>

\* The dict returned for a non-empty list, lines 96-101.
SummarizeReturn(t) ==
    LET f == frames[t]
    IN  /\ f.fn = "summarize" /\ f.pc = "sum"
        /\ f.i > Len(f.values)
        /\ frames' = [frames EXCEPT ![t] =
              [f EXCEPT !.stats = <<[count |-> Len(f.values),
                                     min |-> <<MinOf(f.values)>>,
                                     max |-> <<MaxOf(f.values)>>,
                                     mean |-> <<RMul(f.total,
                                                    Rat(1, Len(f.values)))>>]>>,
                        !.pc = "done", !.interleaved = Interleaves(t)]]
        /\ UNCHANGED <<mode, pc, TRANSFORMS, PIPELINES, result>>

\* Any thread takes the next step of its invocation: no lock is taken.
NextConc ==
    \E t \in Threads :
        \/ RunNextValue(t)
        \/ RunStep(t)
        \/ RunAppend(t)
        \/ RunReturn(t)
        \/ SummarizeList(t)
        \/ SummarizeAdd(t)
        \/ SummarizeReturn(t)

SpecConc == InitConc /\ [][NextConc]_vars

-----------------------------------------------------------------------------
(* Properties of build_pipeline *)

DuplicateError == Raised("ValueError", "already exists")
UnknownTransformsError == Raised("KeyError", "Unknown transforms")

\* The step just taken is a call of build_pipeline.
Built == result'.op = "build_pipeline"

\* C1: build_pipeline under a name PIPELINES already holds raises the
\* duplicate-pipeline error whatever spec is: empty, all names known, or
\* with unknown names.
C1_DuplicateDecidedFirst ==
    [][(Built /\ result'.name \in DOMAIN PIPELINES)
          => result'.exc = DuplicateError]_vars

\* A duplicate build whose spec also names unknown transforms.
C1_Witness ==
    /\ result.op = "build_pipeline"
    /\ result.exc = DuplicateError
    /\ \E i \in DOMAIN result.spec : result.spec[i] \notin DOMAIN TRANSFORMS

\* The positions of spec whose name is not in known, and the j-th of them.
AbsentAt(spec, known) == {i \in DOMAIN spec : spec[i] \notin known}
NthOf(idx, j) == CHOOSE i \in idx : Cardinality({k \in idx : k <= i}) = j

\* m is spec restricted to the names outside known, in spec's order.
IsAbsentSubsequence(m, spec, known) ==
    /\ Len(m) = Cardinality(AbsentAt(spec, known))
    /\ \A j \in 1..Len(m) : m[j] = spec[NthOf(AbsentAt(spec, known), j)]

\* C2: with a free pipeline name and some name of spec not registered,
\* build_pipeline raises the unknown-transforms error, and the list it
\* carries is spec without the registered names: same order, same repeats.
C2_MissingInOrder ==
    [][(/\ Built
        /\ result'.name \notin DOMAIN PIPELINES
        /\ AbsentAt(result'.spec, DOMAIN TRANSFORMS) # {})
          => /\ result'.exc = UnknownTransformsError
             /\ IsAbsentSubsequence(result'.missing, result'.spec,
                                    DOMAIN TRANSFORMS)]_vars

\* The list skips a registered name and keeps the order of the other two.
C2_Witness ==
    /\ result.op = "build_pipeline"
    /\ result.spec = <<"other", "center", "custom">>
    /\ result.missing = <<"other", "custom">>

\* C3: a build_pipeline that raises leaves both registries as they were and
\* returns no pipeline.
C3_FailedBuildChangesNothing ==
    [][(Built /\ result'.exc # NoExc)
          => /\ PIPELINES' = PIPELINES
             /\ TRANSFORMS' = TRANSFORMS
             /\ result'.pipe = <<>>]_vars

\* A build that failed on an unknown name standing after a known one.
C3_Witness ==
    /\ result.op = "build_pipeline"
    /\ result.exc = UnknownTransformsError
    /\ result.spec[1] \in DOMAIN TRANSFORMS
    /\ result.name \notin DOMAIN PIPELINES

\* C4: with a free pipeline name and every name of spec registered,
\* build_pipeline returns a pipeline of that name whose i-th step is the
\* function registered under spec[i], binds the name to it, and changes no
\* other registry entry.
C4_BuildSucceeds ==
    [][(/\ Built
        /\ result'.name \notin DOMAIN PIPELINES
        /\ AbsentAt(result'.spec, DOMAIN TRANSFORMS) = {})
          => /\ result'.exc = NoExc
             /\ Len(result'.pipe) = 1
             /\ result'.pipe[1].name = result'.name
             /\ Len(result'.pipe[1].steps) = Len(result'.spec)
             /\ \A i \in DOMAIN result'.spec :
                    result'.pipe[1].steps[i] = TRANSFORMS[result'.spec[i]]
             /\ DOMAIN PIPELINES' = DOMAIN PIPELINES \cup {result'.name}
             /\ PIPELINES'[result'.name] = result'.pipe[1]
             /\ \A n \in DOMAIN PIPELINES : PIPELINES'[n] = PIPELINES[n]
             /\ TRANSFORMS' = TRANSFORMS]_vars

\* A second pipeline built from three names, the first of them re-registered
\* before the build.
C4_Witness ==
    /\ result.op = "build_pipeline"
    /\ result.exc = NoExc
    /\ result.spec = SmoothSpec
    /\ result.pipe = <<[name |-> "boost",
                        steps |-> <<"square", "square", "clip_0_2">>]>>
    /\ "smooth" \in DOMAIN PIPELINES

-----------------------------------------------------------------------------
(* Properties of Pipeline.run *)

\* The state is the one a call of run returned in.
Ran == result.op = "run"

\* The steps of the pipeline that ran.
RanSteps == PIPELINES[result.name].steps

\* fk(...f2(f1(v))...): the last step applied to what the steps before it
\* make of v.
RECURSIVE Composed(_, _)
Composed(steps, v) ==
    IF steps = <<>> THEN v
    ELSE Call(steps[Len(steps)], Composed(SubSeq(steps, 1, Len(steps) - 1), v))

\* C5: the output of run is as long as the input, and its i-th element is
\* what the pipeline makes of the i-th input alone.
C5_LengthAndOrder ==
    Ran => /\ Len(result.out) = Len(result.values)
           /\ \A i \in DOMAIN result.values :
                  <<result.out[i]>> = PipelineRun(RanSteps, <<result.values[i]>>)

\* A run of a pipeline with a repeated step on two values it tells apart.
C5_Witness ==
    /\ Ran
    /\ Len(RanSteps) >= 2
    /\ RanSteps[1] = RanSteps[2]
    /\ Len(result.values) = 2
    /\ result.out[1] # result.out[2]

\* C6: run maps each value v to fk(...f2(f1(v))...), f1..fk the steps in
\* insertion order; the pipeline center, square, clip_0_2 maps [0.0, 1.0]
\* to [0.25, 0.25].
C6_StepsInInsertionOrder ==
    Ran => /\ result.out =
                 [i \in DOMAIN result.values |-> Composed(RanSteps, result.values[i])]
           /\ (RanSteps = <<"center", "square", "clip_0_2">>
                 /\ result.values = <<Num(0), Num(1)>>)
                => result.out = <<Rat(1, 4), Rat(1, 4)>>

\* The run of center, square, clip_0_2 on [0.0, 1.0].
C6_Witness ==
    /\ Ran
    /\ result.name = "smooth"
    /\ RanSteps = <<"center", "square", "clip_0_2">>
    /\ result.values = <<Num(0), Num(1)>>

\* What run returns for pipeline n on each input, in pipeline registry P.
Outputs(P, n) == [V \in Inputs |-> PipelineRun(P[n].steps, V)]

\* C7: a run leaves the pipeline so that the same run again returns the
\* same output, and no register_transform, build_pipeline, run,
\* run_with_context or summarize changes what a registered pipeline
\* returns on any input (the outputs are computed where the pipeline
\* object is not the same as before; the same object returns the same).
C7_RunRepeatable ==
    [][/\ result'.op = "run"
          => PipelineRun(PIPELINES'[result'.name].steps, result'.values)
                 = result'.out
       /\ result'.op \in {"register_transform", "build_pipeline", "run",
                          "run_with_context", "summarize"}
          => \A n \in DOMAIN PIPELINES :
                 /\ n \in DOMAIN PIPELINES'
                 /\ \/ PIPELINES'[n] = PIPELINES[n]
                    \/ Outputs(PIPELINES', n) = Outputs(PIPELINES, n)]_vars

\* A run of a pipeline built from "center" before "center" was registered
\* anew, with another pipeline built as well.
C7_Witness ==
    /\ Ran
    /\ result.name = "boost"
    /\ RanSteps = <<"center", "square", "clip_0_2">>
    /\ TRANSFORMS["center"] = "square"
    /\ "normalized_boost" \in DOMAIN PIPELINES
    /\ result.values = <<Num(1), Num(4)>>

\* C8: run changes neither registry, so not the step list of the pipeline
\* either; on an empty input it returns an empty list and raises nothing.
C8_RunChangesNothing ==
    [][result'.op = "run"
          => /\ PIPELINES' = PIPELINES
             /\ TRANSFORMS' = TRANSFORMS
             /\ result'.exc = NoExc
             /\ (result'.values = <<>> => result'.out = <<>>)]_vars

\* A run of a pipeline with steps on the empty input.
C8_Witness ==
    /\ Ran
    /\ RanSteps # <<>>
    /\ result.values = <<>>
    /\ result.out = <<>>

\* C9: registering a transform, under a name a pipeline was built from and
\* with another function too, changes no registered pipeline: not its
\* steps, not what run returns, not what run_with_context returns.
C9_BuiltPipelineImmune ==
    [][result'.op = "register_transform"
          => /\ DOMAIN PIPELINES' = DOMAIN PIPELINES
             /\ \A n \in DOMAIN PIPELINES :
                    /\ PIPELINES'[n].steps = PIPELINES[n].steps
                    /\ Outputs(PIPELINES', n) = Outputs(PIPELINES, n)
                    /\ \A V \in Inputs :
                           RunWithContextOutcome(PIPELINES', n, V) =
                               RunWithContextOutcome(PIPELINES, n, V)]_vars

\* "center" has just been registered as square, and a pipeline built from
\* "center" before still holds center.
C9_Witness ==
    /\ result.op = "register_transform"
    /\ result.name = "center"
    /\ result.fn = "square"
    /\ "boost" \in DOMAIN PIPELINES
    /\ PIPELINES["boost"].steps = <<"center", "square", "clip_0_2">>

\* C10: no step of a caller changes the steps of a pipeline that
\* build_pipeline has registered and returned.
C10_StepsImmutable ==
    [][\A n \in DOMAIN PIPELINES :
           /\ n \in DOMAIN PIPELINES'
           /\ PIPELINES'[n].steps = PIPELINES[n].steps]_vars

-----------------------------------------------------------------------------
(* Properties of the registries *)

\* C11: a build_pipeline succeeds only under a name not bound yet, and a
\* bound name stays bound to its pipeline: no step unbinds it, and no step
\* but add_step on that very object changes what it is bound to.
C11_NamesStable ==
    [][/\ (Built /\ result'.exc = NoExc) => result'.name \notin DOMAIN PIPELINES
       /\ \A n \in DOMAIN PIPELINES :
              /\ n \in DOMAIN PIPELINES'
              /\ PIPELINES'[n].name = n
              /\ result'.op # "add_step" => PIPELINES'[n] = PIPELINES[n]]_vars

\* A build under a bound name, with a spec that would give other steps than
\* the bound pipeline has, was refused.
C11_Witness ==
    /\ result.op = "build_pipeline"
    /\ result.exc = DuplicateError
    /\ result.spec = BoostSpec
    /\ PIPELINES[result.name].steps = <<"center", "square", "clip_0_2">>

\* C12: both registries start empty; a transform name is gained only in a
\* register_transform, a pipeline name only in a build_pipeline that
\* succeeds (called directly, or by main or demo_additional_features); no
\* name is ever lost.
C12_RegistriesOnlyGrow ==
    /\ TRANSFORMS = << >>
    /\ PIPELINES = << >>
    /\ [][/\ DOMAIN TRANSFORMS \subseteq DOMAIN TRANSFORMS'
          /\ DOMAIN PIPELINES \subseteq DOMAIN PIPELINES'
          /\ DOMAIN TRANSFORMS' # DOMAIN TRANSFORMS
                => /\ result'.op = "register_transform"
                   /\ DOMAIN TRANSFORMS' = DOMAIN TRANSFORMS \cup {result'.name}
          /\ DOMAIN PIPELINES' # DOMAIN PIPELINES
                => \/ /\ Built
                      /\ result'.exc = NoExc
                      /\ DOMAIN PIPELINES' = DOMAIN PIPELINES \cup {result'.name}
                   \/ /\ result'.op = "main"
                      /\ DOMAIN PIPELINES' \subseteq
                             DOMAIN PIPELINES \cup {"smooth", "boost"}
                   \/ /\ result'.op = "demo_additional_features"
                      /\ DOMAIN PIPELINES' =
                             DOMAIN PIPELINES \cup {"normalized_boost"}]_vars

\* Both registries have grown past what loading the module registers.
C12_Witness ==
    /\ "custom" \in DOMAIN TRANSFORMS
    /\ Fns \subseteq DOMAIN TRANSFORMS
    /\ DOMAIN PIPELINES = PNames
    /\ result.op = "build_pipeline"
    /\ result.exc = NoExc

\* C13: registering under a name TRANSFORMS holds raises nothing and
\* replaces that entry alone, a build that succeeds takes for each name the
\* function registered last, and a build under a name PIPELINES holds is
\* refused and replaces nothing.
C13_AsymmetricDuplicates ==
    [][/\ (result'.op = "register_transform"
             /\ result'.name \in DOMAIN TRANSFORMS)
          => /\ result'.exc = NoExc
             /\ DOMAIN TRANSFORMS' = DOMAIN TRANSFORMS
             /\ TRANSFORMS'[result'.name] = result'.fn
             /\ \A k \in DOMAIN TRANSFORMS \ {result'.name} :
                    TRANSFORMS'[k] = TRANSFORMS[k]
       /\ (Built /\ result'.exc = NoExc)
          => \A i \in DOMAIN result'.spec :
                 PIPELINES'[result'.name].steps[i] = TRANSFORMS[result'.spec[i]]
       /\ (Built /\ result'.name \in DOMAIN PIPELINES)
          => /\ result'.exc = DuplicateError
             /\ PIPELINES' = PIPELINES]_vars

\* "center", defined as center, has been registered as square, and a
\* pipeline built from "center" since holds square.
C13_Witness ==
    /\ result.op = "register_transform"
    /\ result.name = "center"
    /\ TRANSFORMS["center"] = "square"
    /\ "smooth" \in DOMAIN PIPELINES
    /\ PIPELINES["smooth"].steps = <<"square", "square", "clip_0_2">>

-----------------------------------------------------------------------------
(* Properties of the reporters *)

UnknownPipelineError == Raised("KeyError", "No pipeline named")

\* The state is the one a call of run_with_context, or of summarize,
\* returned in.
RanWithContext == result.op = "run_with_context"
Summarized == result.op = "summarize"

\* C14: run_with_context under a name not in PIPELINES raises the
\* unknown-pipeline error whatever the values are, the empty list too,
\* returns no context and changes neither registry.
C14_UnknownPipeline ==
    [][(result'.op = "run_with_context"
          /\ result'.name \notin DOMAIN PIPELINES)
          => /\ result'.exc = UnknownPipelineError
             /\ result'.ctx = <<>>
             /\ PIPELINES' = PIPELINES
             /\ TRANSFORMS' = TRANSFORMS]_vars

\* The call with the empty list under a name not bound, other names bound.
C14_Witness ==
    /\ RanWithContext
    /\ result.values = <<>>
    /\ result.exc = UnknownPipelineError
    /\ PIPELINES # << >>

ZeroContext(name) ==
    [name |-> name, input_count |-> 0, min_before |-> Num(0),
     max_before |-> Num(0), min_after |-> Num(0), max_after |-> Num(0)]

\* C15: on the empty list run_with_context of a registered pipeline returns
\* the context of count 0 with the four range fields numerically 0, and
\* summarize returns count 0 with min, max and mean None, which is no
\* number.
C15_EmptyInputPolicies ==
    /\ (RanWithContext /\ result.name \in DOMAIN PIPELINES
          /\ result.values = <<>>)
       => /\ result.exc = NoExc
          /\ result.ctx = <<ZeroContext(result.name)>>
    /\ (Summarized /\ result.values = <<>>)
       => /\ Len(result.stats) = 1
          /\ result.stats[1].count = 0
          /\ result.stats[1].min = <<>>
          /\ result.stats[1].max = <<>>
          /\ result.stats[1].mean = <<>>
          /\ result.stats[1].min # <<Num(0)>>

\* run_with_context has returned the zero context for the empty list and a
\* registered pipeline that has steps.
C15_Witness ==
    /\ RanWithContext
    /\ result.values = <<>>
    /\ result.name \in DOMAIN PIPELINES
    /\ RanSteps # <<>>
    /\ result.ctx = <<ZeroContext(result.name)>>

\* m is the least, or the greatest, element of the non-empty list V.
IsLeast(m, V) ==
    /\ \E i \in DOMAIN V : V[i] = m
    /\ \A i \in DOMAIN V : RLe(m, V[i])
IsGreatest(m, V) ==
    /\ \E i \in DOMAIN V : V[i] = m
    /\ \A i \in DOMAIN V : RLe(V[i], m)

\* C16: for a registered pipeline and a non-empty list V the context has the
\* pipeline's name, count len(V), the least and greatest element of V
\* before, and the least and greatest element of run(V) after; sqrt_plus_one,
\* square on [0.0, 4.0] gives 0, 4, 1 and 9.
C16_ContextOfRun ==
    (RanWithContext /\ result.name \in DOMAIN PIPELINES /\ result.values # <<>>)
       => LET V == result.values
              out == [i \in DOMAIN V |-> Composed(RanSteps, V[i])]
              ctx == result.ctx[1]
          IN  /\ result.exc = NoExc
              /\ Len(result.ctx) = 1
              /\ ctx.name = result.name
              /\ ctx.input_count = Len(V)
              /\ IsLeast(ctx.min_before, V)
              /\ IsGreatest(ctx.max_before, V)
              /\ IsLeast(ctx.min_after, out)
              /\ IsGreatest(ctx.max_after, out)
              /\ (RanSteps = BoostSpec /\ V = <<Num(0), Num(4)>>)
                    => /\ ctx.min_before = Num(0)
                       /\ ctx.max_before = Num(4)
                       /\ ctx.min_after = Num(1)
                       /\ ctx.max_after = Num(9)

\* run_with_context of "boost", built as sqrt_plus_one, square, on [0.0, 4.0].
C16_Witness ==
    /\ RanWithContext
    /\ result.name = "boost"
    /\ "boost" \in DOMAIN PIPELINES
    /\ PIPELINES["boost"].steps = <<"sqrt_plus_one", "square">>
    /\ result.values = <<Num(0), Num(4)>>
    /\ result.exc = NoExc

\* The sum of a list, from its last element back.
RECURSIVE SumOf(_)
SumOf(V) ==
    IF V = <<>> THEN Num(0)
    ELSE RAdd(SumOf(SubSeq(V, 1, Len(V) - 1)), V[Len(V)])

\* C17: for a non-empty list V summarize returns count len(V), the least
\* element, the greatest element, and the mean: the number that times
\* len(V) is the sum of V; for [1.0, 2.0, 3.0] that is 3, 1, 3 and 2.
C17_SummaryOfValues ==
    (Summarized /\ result.values # <<>>)
       => LET V == result.values
              st == result.stats[1]
          IN  /\ st.count = Len(V)
              /\ Len(st.min) = 1 /\ IsLeast(st.min[1], V)
              /\ Len(st.max) = 1 /\ IsGreatest(st.max[1], V)
              /\ Len(st.mean) = 1
              /\ RMul(st.mean[1], Num(Len(V))) = SumOf(V)
              /\ V = <<Num(1), Num(2), Num(3)>>
                    => st = [count |-> 3, min |-> <<Num(1)>>,
                             max |-> <<Num(3)>>, mean |-> <<Num(2)>>]

\* summarize has returned for [1.0, 2.0, 3.0].
C17_Witness ==
    /\ Summarized
    /\ result.values = <<Num(1), Num(2), Num(3)>>
    /\ result.stats[1].mean = <<Num(2)>>

\* The state is the one a caller drained number_stream in.
Streamed == result.op = "number_stream"

\* C18: number_stream(n) yields n values, the one at index i being
\* ((37 * i) mod 101) / 100 whatever n is, so that the stream of a smaller
\* count is a prefix of it; number_stream(0) is empty and number_stream(3)
\* is 0.0, 0.37, 0.74.
C18_NumberStream ==
    Streamed
       => LET n == result.n
              out == result.out
          IN  /\ Len(out) = n
              /\ \A i \in 0..(n - 1) :
                     RMul(out[i + 1], Num(100)) = Num((37 * i) % 101)
              /\ \A m \in 0..n : number_stream(m) = SubSeq(out, 1, m)
              /\ n = 0 => out = <<>>
              /\ n = 3 => out = <<Num(0), Rat(37, 100), Rat(74, 100)>>

\* A stream long enough for 37 * i to pass 101.
C18_Witness ==
    /\ Streamed
    /\ result.n = 4
    /\ result.out[4] = Rat(10, 100)

-----------------------------------------------------------------------------
(* Properties of loading the module *)

\* The step is a call of build_pipeline, by a caller or inside main or
\* demo_additional_features.
BuilderUsed ==
    result'.op \in {"build_pipeline", "main", "demo_additional_features"}

\* C19: whenever build_pipeline is called, the five built-in transforms are
\* in TRANSFORMS.
C19_PopulatedBeforeBuild ==
    [][BuilderUsed => Fns \subseteq DOMAIN TRANSFORMS]_vars

-----------------------------------------------------------------------------
(* Properties of interleaved invocations *)

\* What the invocation in frame f returns when it runs alone.
AloneOut(f) == PipelineRun(PIPELINES[f.name].steps, f.values)
AloneStats(f) == summarize(f.values)

\* C20: however the steps of the invocations of run and summarize are
\* interleaved, an invocation that has returned has returned what it
\* returns alone, and the registries are as they were.
C20_Reentrant ==
    /\ \A t \in DOMAIN frames :
          frames[t].pc = "done"
             => IF frames[t].fn = "run"
                THEN frames[t].out = AloneOut(frames[t])
                ELSE frames[t].stats = <<AloneStats(frames[t])>>
    /\ frames # << >> => /\ DOMAIN PIPELINES = {"smooth", "boost"}
                         /\ PIPELINES["smooth"].steps = SmoothSpec
                         /\ PIPELINES["boost"].steps = BoostSpec

\* Two runs of different pipelines on different lists have returned, each
\* having taken steps while the other was under way.
C20_Witness ==
    /\ frames # << >>
    /\ frames[1].pc = "done" /\ frames[2].pc = "done"
    /\ frames[1].fn = "run" /\ frames[2].fn = "run"
    /\ frames[1].name = "smooth" /\ frames[2].name = "boost"
    /\ frames[1].values = <<Num(0), Num(4)>>
    /\ frames[2].values = <<Num(4), Num(0)>>
    /\ frames[1].interleaved /\ frames[2].interleaved

-----------------------------------------------------------------------------
(* Properties of the derived metric and of the entry points *)

Demoed == result.op = "demo_additional_features"

\* x + k * 1e-9 > 0, for x of denominator below 10^9 and k at most 1.
StrictlyPositive(y) ==
    /\ y.whole.d < 1000000000
    /\ y.nano \in {0, 1}
    /\ y.whole.n > 0 \/ (y.whole.n = 0 /\ y.nano > 0)

ZeroDivisionError == Raised("ZeroDivisionError", "float division by zero")

\* C21: the metric of demo_additional_features is there exactly when its
\* context has input_count > 0, and its division does not fail; for every
\* context run_with_context returns, the metric is computed only if
\* input_count > 0, its divisor is then strictly positive, and is 1e-9
\* alone when all the input values are equal.
C21_DivisorPositive ==
    /\ Demoed
          => /\ result.exc # ZeroDivisionError
             /\ result.metric # <<>>
                   <=> (result.ctx # <<>> /\ result.ctx[1].input_count > 0)
             /\ result.metric # <<>> => StrictlyPositive(result.metric[1].den)
    /\ (RanWithContext /\ result.ctx # <<>>)
          => LET ctx == result.ctx[1]
                 V == result.values
                 m == RelativeSpanChange(ctx)
             IN  /\ m # <<>> <=> ctx.input_count > 0
                 /\ m # <<>> => StrictlyPositive(m[1].den)
                 /\ (V # <<>> /\ \A i \in DOMAIN V : V[i] = V[1])
                       => m[1].den = PlusNano(Num(0), 1)

\* demo_additional_features has computed its metric from the context of
\* number_stream(10), whose span is 0.94.
C21_Witness ==
    /\ Demoed
    /\ result.exc = NoExc
    /\ result.ctx[1].input_count = 10
    /\ result.metric # <<>>
    /\ result.metric[1].den = PlusNano(Rat(94, 100), 1)

\* What a call of build_pipeline ends in.
BuildErrors == {NoExc, DuplicateError, UnknownTransformsError}

\* C22: a build that is past the two checks finds every name of spec in
\* TRANSFORMS, so it returns, and build_pipeline raises nothing but the
\* duplicate-pipeline and the unknown-transforms error, called by a caller,
\* by main or by demo_additional_features.
C22_LookupNeverFails ==
    [][/\ Built
          => /\ result'.exc \in BuildErrors
             /\ result'.exc \notin {DuplicateError, UnknownTransformsError}
                   => /\ \A i \in DOMAIN result'.spec :
                             result'.spec[i] \in DOMAIN TRANSFORMS
                      /\ result'.exc = NoExc
                      /\ Len(PIPELINES'[result'.name].steps) = Len(result'.spec)
       /\ BuilderUsed => result'.exc \in BuildErrors]_vars

\* A build has resolved a name a caller registered.
C22_Witness ==
    /\ result.op = "build_pipeline"
    /\ result.exc = NoExc
    /\ result.spec = <<"custom">>
    /\ PIPELINES[result.name].steps = <<"square">>

\* C23: in every context run_with_context returns for a registered
\* pipeline, on the empty list or not, and in every context
\* demo_additional_features gets, min_before <= max_before and
\* min_after <= max_after.
C23_RangesOrdered ==
    ((RanWithContext \/ Demoed) /\ result.ctx # <<>>)
       => /\ RLe(result.ctx[1].min_before, result.ctx[1].max_before)
          /\ RLe(result.ctx[1].min_after, result.ctx[1].max_after)

\* A context whose two ranges are not single points.
C23_Witness ==
    /\ RanWithContext
    /\ result.ctx # <<>>
    /\ result.ctx[1].min_before # result.ctx[1].max_before
    /\ result.ctx[1].min_after # result.ctx[1].max_after

\* C24: build_pipeline with the empty spec under a free name returns a
\* pipeline of no steps and binds the name to it; run of a pipeline of no
\* steps returns the list it was given, and run_with_context of it on a
\* non-empty list reports the range after equal to the range before.
C24_EmptySpec ==
    [][/\ (Built /\ result'.spec = <<>> /\ result'.name \notin DOMAIN PIPELINES)
          => /\ result'.exc = NoExc
             /\ result'.name \in DOMAIN PIPELINES'
             /\ PIPELINES'[result'.name].steps = <<>>
             /\ result'.pipe = <<PIPELINES'[result'.name]>>
       /\ (result'.op = "run" /\ PIPELINES[result'.name].steps = <<>>)
          => result'.out = result'.values
       /\ (result'.op = "run_with_context"
             /\ result'.name \in DOMAIN PIPELINES
             /\ PIPELINES[result'.name].steps = <<>>
             /\ result'.values # <<>>)
          => /\ result'.exc = NoExc
             /\ result'.ctx[1].min_after = result'.ctx[1].min_before
             /\ result'.ctx[1].max_after = result'.ctx[1].max_before]_vars

\* run_with_context of a pipeline built from the empty spec, on [0.0, 4.0].
C24_Witness ==
    /\ RanWithContext
    /\ result.name \in DOMAIN PIPELINES
    /\ RanSteps = <<>>
    /\ result.values = <<Num(0), Num(4)>>
    /\ result.ctx[1].min_after = Num(0)
    /\ result.ctx[1].max_after = Num(4)

\* C25: demo_additional_features never ends in the duplicate-pipeline
\* error, and with "normalized_boost" bound it leaves PIPELINES as it is;
\* main called with "smooth" bound ends in the duplicate-pipeline error for
\* "smooth" and leaves both registries as they are, "boost" not built.
C25_DemoRepeatableMainNot ==
    [][/\ result'.op = "demo_additional_features"
          => /\ result'.exc = NoExc
             /\ "normalized_boost" \in DOMAIN PIPELINES => PIPELINES' = PIPELINES
             /\ "normalized_boost" \in DOMAIN PIPELINES'
       /\ (result'.op = "main" /\ "smooth" \in DOMAIN PIPELINES)
          => /\ result'.exc = DuplicateError
             /\ result'.name = "smooth"
             /\ PIPELINES' = PIPELINES
             /\ TRANSFORMS' = TRANSFORMS]_vars

\* main has failed on "smooth", which a caller had built, and "boost" is
\* not built, while demo_additional_features has built its pipeline.
C25_Witness ==
    /\ result.op = "main"
    /\ result.exc = DuplicateError
    /\ "boost" \notin DOMAIN PIPELINES
    /\ "normalized_boost" \in DOMAIN PIPELINES

=============================================================================
